---------------------------- MODULE Spec2Model ----------------------------
(***************************************************************************)
(* BlueScope bt_sniffer.py: the discovery-aggregation engine.              *)
(*                                                                         *)
(* One run of main_async: the BLE listening window (scan_ble, with its     *)
(* on_detect callback), the Classic inquiry on a worker thread             *)
(* (scan_classic), the merge of the Classic result into the store and the  *)
(* output writes.  Python objects live on a heap (a sequence of            *)
(* DeviceRecord values indexed by allocation order); a dict is a sequence  *)
(* of <<key, reference>> entries in insertion order, as CPython keeps it.  *)
(* An optional value is <<>> (None) or <<v>>.                              *)
(***************************************************************************)
EXTENDS Integers, Sequences, FiniteSets, TLC

VARIABLES
    mode,            \* args.mode
    json_path,       \* args.json_path
    csv_path,        \* args.csv_path
    pc,              \* position of main_async / the active adapter
    heap,            \* every DeviceRecord constructed so far, by allocation order
    ble_records,     \* scan_ble's dict `records` (main_async's ble_records)
    classic_records, \* scan_classic's dict `records` (main_async's classic_records)
    all_records,     \* main_async's dict all_records
    devices,         \* scan_classic's list `devices` still to be iterated
    pending,         \* main_async's iterator over classic_records.items()
    now,             \* the wall clock read by utc_now_iso
    stderr,          \* the diagnostics printed to sys.stderr
    files,           \* the output files written, in order
    ble_log,         \* history: the arguments of every on_detect call
    classic_log      \* history: every inquiry tuple iterated

vars == <<mode, json_path, csv_path, pc, heap, ble_records, classic_records,
          all_records, devices, pending, now, stderr, files, ble_log,
          classic_log>>

----------------------------------------------------------------------------
(* Bounds of the model. *)

\* The detection inputs of one run: advertisement events plus inquiry tuples.
MaxInputs == 3
\* The last reading of the clock.
MaxClock == 1

----------------------------------------------------------------------------
(* Python values. *)

None == <<>>
Some(v) == <<v>>

\* Truthiness of an optional str / int / list as `or` and `if` test it.
TruthyStr(o) == o # None /\ o[1] # ""
TruthyInt(o) == o # None /\ o[1] # 0

\* a or b
OrStr(a, b) == IF TruthyStr(a) THEN a ELSE b
OrInt(a, b) == IF TruthyInt(a) THEN a ELSE b

Range(s) == {s[i] : i \in 1..Len(s)}

\* A dict: entries <<key, ref>> in insertion order.
EmptyDict == <<>>
Keys(d) == {d[i][1] : i \in 1..Len(d)}
KeySeq(d) == [i \in 1..Len(d) |-> d[i][1]]
DictGet(d, k) == IF k \in Keys(d)
                 THEN (CHOOSE i \in 1..Len(d) : d[i][1] = k)
                 ELSE 0
\* position of key k, 0 if absent
Ref(d, k) == d[DictGet(d, k)][2]
\* d[k] = r putting a new key first
DictSetFront(d, k, r) == IF k \in Keys(d)
                         THEN [d EXCEPT ![DictGet(d, k)] = <<k, r>>]
                         ELSE <<<<k, r>>>> \o d
\* d[k] = r
DictSet(d, k, r) == IF k \in Keys(d)
                    THEN [d EXCEPT ![DictGet(d, k)] = <<k, r>>]
                    ELSE Append(d, <<k, r>>)

RECURSIVE DictUpdate(_, _)
\* d.update(other)
DictUpdate(d, other) ==
    IF other = <<>> THEN d
    ELSE DictUpdate(DictSet(d, other[1][1], other[1][2]), Tail(other))

EmptyMap == [k \in {} |-> ""]
\* The mapping replaced by the one entry
MapSetOnly(m, k, v) == [x \in {k} |-> v]

\* m[k] = v on a str-to-str mapping field
MapSet(m, k, v) == [x \in (DOMAIN m) \cup {k} |-> IF x = k THEN v ELSE m[x]]


----------------------------------------------------------------------------
(* DeviceRecord. *)

\* DeviceRecord.__init__(address, transport), first_seen read from the clock at t
NewRecord(address, transport, t) ==
    [address |-> address, transport |-> transport,
     name |-> None, rssi |-> None, tx_power |-> None, appearance |-> None,
     connectable |-> None, address_type |-> None,
     service_uuids |-> {}, service_data |-> EmptyMap,
     manufacturer_data |-> EmptyMap, device_class |-> None,
     first_seen |-> t, last_seen |-> t, sightings |-> 0]

\* update_last_seen refreshing first_seen instead of last_seen
update_last_seen_first(rec, t) ==
    [rec EXCEPT !.first_seen = t, !.sightings = rec.sightings + 1]

\* update_last_seen with the counter set instead of incremented
update_last_seen_set(rec, t) ==
    [rec EXCEPT !.last_seen = t, !.sightings = 1]

\* DeviceRecord.update_last_seen(), the clock read at t
update_last_seen(rec, t) ==
    [rec EXCEPT !.last_seen = t, !.sightings = rec.sightings + 1]

\* The order sorted() gives the UUID strings of the model.
UuidOrder == <<"u1", "u2", "u3">>
UuidRank(u) == CHOOSE i \in 1..Len(UuidOrder) : UuidOrder[i] = u

RECURSIVE SortedUuids(_)
\* sorted(list(s))
SortedUuids(s) ==
    IF s = {} THEN <<>>
    ELSE LET m == CHOOSE u \in s : \A v \in s : UuidRank(u) <= UuidRank(v)
         IN <<m>> \o SortedUuids(s \ {m})

\* The row with an empty list for a record without UUIDs
to_row_list(rec) ==
    [address |-> rec.address, transport |-> rec.transport, name |-> rec.name,
     rssi |-> rec.rssi, tx_power |-> rec.tx_power,
     appearance |-> rec.appearance, connectable |-> rec.connectable,
     address_type |-> rec.address_type, device_class |-> rec.device_class,
     service_uuids |-> Some(SortedUuids(rec.service_uuids)),
     service_data |-> IF DOMAIN rec.service_data # {}
                      THEN Some(rec.service_data) ELSE None,
     manufacturer_data |-> IF DOMAIN rec.manufacturer_data # {}
                           THEN Some(rec.manufacturer_data) ELSE None,
     first_seen |-> rec.first_seen, last_seen |-> rec.last_seen,
     sightings |-> rec.sightings]

\* DeviceRecord.to_row()
to_row(rec) ==
    [address |-> rec.address, transport |-> rec.transport, name |-> rec.name,
     rssi |-> rec.rssi, tx_power |-> rec.tx_power,
     appearance |-> rec.appearance, connectable |-> rec.connectable,
     address_type |-> rec.address_type, device_class |-> rec.device_class,
     service_uuids |-> IF rec.service_uuids # {}
                       THEN Some(SortedUuids(rec.service_uuids)) ELSE None,
     service_data |-> IF DOMAIN rec.service_data # {}
                      THEN Some(rec.service_data) ELSE None,
     manufacturer_data |-> IF DOMAIN rec.manufacturer_data # {}
                           THEN Some(rec.manufacturer_data) ELSE None,
     first_seen |-> rec.first_seen, last_seen |-> rec.last_seen,
     sightings |-> rec.sightings]

----------------------------------------------------------------------------
(* bytes.hex() and int(). *)

HexDigits == <<"0", "1", "2", "3", "4", "5", "6", "7",
               "8", "9", "a", "b", "c", "d", "e", "f">>
HexByte(b) == HexDigits[(b \div 16) + 1] \o HexDigits[(b % 16) + 1]

RECURSIVE Hex(_)
\* b.hex() of a byte sequence
Hex(b) == IF b = <<>> THEN "" ELSE HexByte(b[1]) \o Hex(Tail(b))

Digits == <<"0", "1", "2", "3", "4", "5", "6", "7", "8", "9">>
IsDigit(c) == \E i \in 1..10 : Digits[i] = c
DigitVal(c) == (CHOOSE i \in 1..10 : Digits[i] = c) - 1

RECURSIVE DigitsVal(_, _)
DigitsVal(cs, acc) ==
    IF cs = <<>> THEN acc ELSE DigitsVal(Tail(cs), 10 * acc + DigitVal(cs[1]))

\* A manufacturer-data key: an int, or a str held as its characters.
IntKey(n) == [kind |-> "int", num |-> n, chars |-> <<>>]
StrKey(cs) == [kind |-> "str", num |-> 0, chars |-> cs]

\* Whether int(cid) succeeds: an int, or a str of an optional sign and digits.
IntParses(cid) ==
    \/ cid.kind = "int"
    \/ LET cs == cid.chars
           body == IF cs # <<>> /\ cs[1] \in {"+", "-"} THEN Tail(cs) ELSE cs
       IN body # <<>> /\ \A i \in 1..Len(body) : IsDigit(body[i])

\* try: key = int(cid)  except Exception: key = cid
ManufacturerKey(cid) ==
    IF ~IntParses(cid) THEN cid
    ELSE IF cid.kind = "int" THEN cid
    ELSE LET cs == cid.chars
             neg == cs[1] = "-"
             body == IF cs[1] \in {"+", "-"} THEN Tail(cs) ELSE cs
             v == DigitsVal(body, 0)
         IN IntKey(IF neg THEN 0 - v ELSE v)

----------------------------------------------------------------------------
(* The inputs: what the scan providers deliver. *)

\* bleak's BLEDevice, as on_detect reads it
Device(address, mac_address, name, rssi) ==
    [address |-> address, mac_address |-> mac_address, name |-> name,
     rssi |-> rssi]

DevAA == Device(Some("AA:BB"), None, Some("X"), Some(-60))
DevAAanon == Device(Some("AA:BB"), None, None, Some(-45))
DevMac == Device(Some(""), Some("AA:BB"), Some(""), None)
DevNoAddr == Device(None, None, None, None)

AdvEmpty ==
    [local_name |-> None, rssi |-> None, tx_power |-> None,
     appearance |-> None, connectable |-> None, address_type |-> None,
     service_uuids |-> <<>>, service_data |-> <<>>,
     manufacturer_data |-> <<>>]

AdvFull ==
    [local_name |-> None, rssi |-> Some(-50), tx_power |-> Some(4),
     appearance |-> Some(1), connectable |-> Some(TRUE),
     address_type |-> Some("public"),
     service_uuids |-> <<"u2", "u1">>,
     service_data |-> << <<"u1", <<1>> >> >>,
     manufacturer_data |-> << <<IntKey(76), <<170>> >> >>]

AdvOther ==
    [local_name |-> Some("Y"), rssi |-> None, tx_power |-> Some(8),
     appearance |-> Some(0), connectable |-> Some(FALSE),
     address_type |-> Some("random"),
     service_uuids |-> <<"u3", "u1", "u3">>,
     service_data |-> << <<"u1", <<2>> >>, <<"u2", <<255>> >> >>,
     manufacturer_data |-> << <<StrKey(<<"7", "6">>), <<187>> >>,
                              <<StrKey(<<"4", "c">>), <<0, 16>> >> >>]

\* The (device, adv_data) pairs the BLE provider may hand to the callback.
BleEvents ==
    { <<DevAA, AdvFull>>, <<DevAAanon, AdvEmpty>>, <<DevMac, AdvOther>>,
      <<DevNoAddr, AdvEmpty>> }

\* The tuples bluetooth.discover_devices may return with lookup_class.
ClassicTuples ==
    { <<"AA:BB", Some("Phone"), Some(42)>>, <<"AA:BB", None, None>>,
      <<"AA:BB", Some("Other"), Some(0)>>, <<"aa:bb", Some("")>> }

\* The (addr, name) pairs it returns without lookup_class.
ClassicPairs == { <<"AA:BB", Some("Phone")>> }

RECURSIVE SeqsUpTo(_, _)
\* the sequences over S of length at most n
SeqsUpTo(S, n) ==
    IF n = 0 THEN {<<>>}
    ELSE LET shorter == SeqsUpTo(S, n - 1)
         IN shorter \cup {Append(q, x) : q \in shorter, x \in S}

Modes == {"ble", "classic", "both"}
JsonPaths == {None, Some(""), Some("out.json")}
CsvPaths == {None, Some("out.csv")}

----------------------------------------------------------------------------
(* scan_ble. *)

\* addr = device.address or device.mac_address or "UNKNOWN"
ResolveAddr(device) ==
    OrStr(OrStr(device.address, device.mac_address), Some("UNKNOWN"))[1]

RECURSIVE AddServiceData(_, _)
\* for u, b in adv_data.service_data.items(): rec.service_data[u] = b.hex()
AddServiceData(m, items) ==
    IF items = <<>> THEN m
    ELSE AddServiceData(MapSet(m, items[1][1], Hex(items[1][2])), Tail(items))

RECURSIVE AddManufacturerData(_, _)
\* for cid, b in adv_data.manufacturer_data.items(): ... [key] = b.hex()
AddManufacturerData(m, items) ==
    IF items = <<>> THEN m
    ELSE AddManufacturerData(
             MapSet(m, ManufacturerKey(items[1][1]), Hex(items[1][2])),
             Tail(items))

\* on_detect with the name taken from the event alone
DetectFieldsEventName(rec, device, adv) ==
    [rec EXCEPT
       !.name = OrStr(device.name, adv.local_name),
       !.rssi = IF adv.rssi # None THEN adv.rssi ELSE device.rssi,
       !.tx_power = adv.tx_power,
       !.appearance = adv.appearance,
       !.connectable = adv.connectable,
       !.address_type = adv.address_type,
       !.service_uuids = rec.service_uuids \cup Range(adv.service_uuids),
       !.service_data = AddServiceData(rec.service_data, adv.service_data),
       !.manufacturer_data =
           AddManufacturerData(rec.manufacturer_data, adv.manufacturer_data)]

\* on_detect keeping the first value of the four advertisement fields
DetectFieldsKeepFirst(rec, device, adv) ==
    [rec EXCEPT
       !.name = OrStr(OrStr(device.name, adv.local_name), rec.name),
       !.rssi = IF adv.rssi # None THEN adv.rssi ELSE device.rssi,
       !.tx_power = IF rec.tx_power # None THEN rec.tx_power
                    ELSE adv.tx_power,
       !.appearance = IF rec.appearance # None THEN rec.appearance
                      ELSE adv.appearance,
       !.connectable = IF rec.connectable # None THEN rec.connectable
                       ELSE adv.connectable,
       !.address_type = IF rec.address_type # None THEN rec.address_type
                        ELSE adv.address_type,
       !.service_uuids = rec.service_uuids \cup Range(adv.service_uuids),
       !.service_data = AddServiceData(rec.service_data, adv.service_data),
       !.manufacturer_data =
           AddManufacturerData(rec.manufacturer_data, adv.manufacturer_data)]

\* on_detect keeping the last value an event supplied for the four fields
DetectFieldsCoalesce(rec, device, adv) ==
    [rec EXCEPT
       !.name = OrStr(OrStr(device.name, adv.local_name), rec.name),
       !.rssi = IF adv.rssi # None THEN adv.rssi ELSE device.rssi,
       !.tx_power = IF adv.tx_power # None THEN adv.tx_power
                    ELSE rec.tx_power,
       !.appearance = IF adv.appearance # None THEN adv.appearance
                      ELSE rec.appearance,
       !.connectable = IF adv.connectable # None THEN adv.connectable
                       ELSE rec.connectable,
       !.address_type = IF adv.address_type # None THEN adv.address_type
                        ELSE rec.address_type,
       !.service_uuids = rec.service_uuids \cup Range(adv.service_uuids),
       !.service_data = AddServiceData(rec.service_data, adv.service_data),
       !.manufacturer_data =
           AddManufacturerData(rec.manufacturer_data, adv.manufacturer_data)]

\* The field updates of on_detect on rec, before update_last_seen.
DetectFields(rec, device, adv) ==
    [rec EXCEPT
       !.name = OrStr(OrStr(device.name, adv.local_name), rec.name),
       !.rssi = IF adv.rssi # None THEN adv.rssi ELSE device.rssi,
       !.tx_power = adv.tx_power,
       !.appearance = adv.appearance,
       !.connectable = adv.connectable,
       !.address_type = adv.address_type,
       !.service_uuids = IF adv.service_uuids # <<>>
                         THEN rec.service_uuids \cup Range(adv.service_uuids)
                         ELSE rec.service_uuids,
       !.service_data = IF adv.service_data # <<>>
                        THEN AddServiceData(rec.service_data, adv.service_data)
                        ELSE rec.service_data,
       !.manufacturer_data =
           IF adv.manufacturer_data # <<>>
           THEN AddManufacturerData(rec.manufacturer_data,
                                    adv.manufacturer_data)
           ELSE rec.manufacturer_data]

\* The failed import escaping scan_ble
BleImportRaises ==
    /\ pc = "start"
    /\ mode \in {"ble", "both"}
    /\ stderr' = stderr \cup {"ble_import"}
    /\ pc' = "crashed"
    /\ UNCHANGED <<mode, json_path, csv_path, heap, ble_records,
                   classic_records, all_records, devices, pending, now,
                   files, ble_log, classic_log>>

\* from bleak import BleakScanner fails: scan_ble returns {}, main_async
\* updates the store with it.
BleImportFails ==
    /\ pc = "start"
    /\ mode \in {"ble", "both"}
    /\ stderr' = stderr \cup {"ble_import"}
    /\ ble_records' = EmptyDict
    /\ all_records' = DictUpdate(all_records, EmptyDict)
    /\ pc' = "ble_done"
    /\ UNCHANGED <<mode, json_path, csv_path, heap, classic_records, devices,
                   pending, now, files, ble_log, classic_log>>

\* The import succeeds: records = {}, the scanner is built and started.
BleStart ==
    /\ pc = "start"
    /\ mode \in {"ble", "both"}
    /\ ble_records' = EmptyDict
    /\ pc' = "ble_window"
    /\ UNCHANGED <<mode, json_path, csv_path, heap, classic_records,
                   all_records, devices, pending, now, stderr, files,
                   ble_log, classic_log>>

\* on_detect(device, adv_data), the clock read at t1 by a new record's
\* constructor and at t2 by update_last_seen.
OnDetect(device, adv, t1, t2) ==
    /\ pc = "ble_window"
    /\ Len(ble_log) < MaxInputs
    /\ LET addr == ResolveAddr(device)
           fresh == addr \notin Keys(ble_records)
           ref == IF fresh THEN Len(heap) + 1 ELSE Ref(ble_records, addr)
           rec == IF fresh THEN NewRecord(addr, "BLE", t1) ELSE heap[ref]
           upd == update_last_seen(DetectFields(rec, device, adv), t2)
       IN /\ fresh \/ t1 = now
          /\ heap' = IF fresh THEN Append(heap, upd)
                     ELSE [heap EXCEPT ![ref] = upd]
          /\ ble_records' = IF fresh THEN DictSet(ble_records, addr, ref)
                            ELSE ble_records
    /\ now' = t2
    /\ ble_log' = Append(ble_log, <<device, adv>>)
    /\ UNCHANGED <<mode, json_path, csv_path, pc, classic_records,
                   all_records, devices, pending, stderr, files,
                   classic_log>>

\* The timed wait ends and scanner.stop() returns: scan_ble returns records
\* and main_async runs all_records.update(ble_records).
BleStop ==
    /\ pc = "ble_window"
    /\ all_records' = DictUpdate(all_records, ble_records)
    /\ pc' = "ble_done"
    /\ UNCHANGED <<mode, json_path, csv_path, heap, ble_records,
                   classic_records, devices, pending, now, stderr, files,
                   ble_log, classic_log>>

\* scanner.start(), the wait or scanner.stop() raises an Exception: it is
\* caught and printed, scan_ble returns records all the same.
BleError ==
    /\ pc = "ble_window"
    /\ stderr' = stderr \cup {"ble_scan"}
    /\ all_records' = DictUpdate(all_records, ble_records)
    /\ pc' = "ble_done"
    /\ UNCHANGED <<mode, json_path, csv_path, heap, ble_records,
                   classic_records, devices, pending, now, files, ble_log,
                   classic_log>>

----------------------------------------------------------------------------
(* scan_classic, on the worker thread of asyncio.to_thread. *)

\* The process ends before main_async returns: its records are gone with it.
ProcessExit(how) ==
    /\ pc' = how
    /\ heap' = <<>>
    /\ ble_records' = EmptyDict
    /\ classic_records' = EmptyDict
    /\ all_records' = EmptyDict
    /\ devices' = <<>>
    /\ pending' = EmptyDict
    /\ ble_log' = <<>>
    /\ classic_log' = <<>>
    /\ UNCHANGED <<mode, json_path, csv_path, now, files>>

\* mode is "classic": the BLE branch of main_async is not taken.
SkipBle ==
    /\ pc = "start"
    /\ mode = "classic"
    /\ pc' = "ble_done"
    /\ UNCHANGED <<mode, json_path, csv_path, heap, ble_records,
                   classic_records, all_records, devices, pending, now,
                   stderr, files, ble_log, classic_log>>

\* mode is "ble": the Classic branch of main_async is not taken.
SkipClassic ==
    /\ pc = "ble_done"
    /\ mode = "ble"
    /\ pc' = "output"
    /\ UNCHANGED <<mode, json_path, csv_path, heap, ble_records,
                   classic_records, all_records, devices, pending, now,
                   stderr, files, ble_log, classic_log>>

\* import bluetooth fails: scan_classic returns {}, the merge loop has
\* nothing to iterate.
ClassicImportFails ==
    /\ pc = "ble_done"
    /\ mode \in {"classic", "both"}
    /\ stderr' = stderr \cup {"classic_import"}
    /\ classic_records' = EmptyDict
    /\ pending' = EmptyDict
    /\ pc' = "merge"
    /\ UNCHANGED <<mode, json_path, csv_path, heap, ble_records, all_records,
                   devices, now, files, ble_log, classic_log>>

\* The worker handed the store as its dict
ClassicStartShared ==
    /\ pc = "ble_done"
    /\ mode \in {"classic", "both"}
    /\ classic_records' = all_records
    /\ pc' = "classic_inquiry"
    /\ UNCHANGED <<mode, json_path, csv_path, heap, ble_records, all_records,
                   devices, pending, now, stderr, files, ble_log, classic_log>>

\* The import succeeds: records = {}, the worker blocks in discover_devices.
ClassicStart ==
    /\ pc = "ble_done"
    /\ mode \in {"classic", "both"}
    /\ classic_records' = EmptyDict
    /\ pc' = "classic_inquiry"
    /\ UNCHANGED <<mode, json_path, csv_path, heap, ble_records, all_records,
                   devices, pending, now, stderr, files, ble_log, classic_log>>

\* discover_devices(..., lookup_class=True) returns found.
InquiryReturns(found) ==
    /\ pc = "classic_inquiry"
    /\ devices' = found
    /\ pc' = "classic_loop"
    /\ UNCHANGED <<mode, json_path, csv_path, heap, ble_records,
                   classic_records, all_records, pending, now, stderr, files,
                   ble_log, classic_log>>

\* The first call raises TypeError; the call without lookup_class returns
\* pairs: devices = [(addr, name, None) for addr, name in devices].
InquiryWithoutClass(pairs) ==
    /\ pc = "classic_inquiry"
    /\ devices' = [i \in 1..Len(pairs) |-> <<pairs[i][1], pairs[i][2], None>>]
    /\ pc' = "classic_loop"
    /\ UNCHANGED <<mode, json_path, csv_path, heap, ble_records,
                   classic_records, all_records, pending, now, stderr, files,
                   ble_log, classic_log>>

\* discover_devices raises anything but TypeError (or the second call raises):
\* nothing catches it below asyncio.run, the process ends with a traceback.
InquiryFails ==
    /\ pc = "classic_inquiry"
    /\ stderr' = stderr \cup {"traceback"}
    /\ ProcessExit("crashed")

\* The address upper-cased before it is looked up
TupleAddrUpper(item) == IF item[1] = "aa:bb" THEN "AA:BB" ELSE item[1]

\* The (addr, name, dev_class) the loop body unpacks from item.
TupleAddr(item) == item[1]
TupleName(item) == IF Len(item) = 3 THEN item[2]
                   ELSE IF Len(item) > 1 THEN item[2] ELSE None
TupleClass(item) == IF Len(item) = 3 THEN item[3] ELSE None

\* The loop body keeping a name the record already has
ClassicFieldsKeepName(rec, name, dev_class) ==
    [rec EXCEPT !.name = OrStr(rec.name, name),
                !.device_class = dev_class]

\* The field updates of the loop body on rec, before update_last_seen.
ClassicFields(rec, name, dev_class) ==
    [rec EXCEPT !.name = OrStr(name, rec.name),
                !.device_class = dev_class]

\* One iteration of `for item in devices`, the clock read at t1 by a new
\* record's constructor and at t2 by update_last_seen.
ClassicTuple(t1, t2) ==
    /\ pc = "classic_loop"
    /\ devices # <<>>
    /\ LET item == Head(devices)
           addr == TupleAddr(item)
           fresh == addr \notin Keys(classic_records)
           ref == IF fresh THEN Len(heap) + 1 ELSE Ref(classic_records, addr)
           rec == IF fresh THEN NewRecord(addr, "Classic", t1) ELSE heap[ref]
           upd == update_last_seen(
                      ClassicFields(rec, TupleName(item), TupleClass(item)), t2)
       IN /\ fresh \/ t1 = now
          /\ heap' = IF fresh THEN Append(heap, upd)
                     ELSE [heap EXCEPT ![ref] = upd]
          /\ classic_records' = IF fresh
                                THEN DictSet(classic_records, addr, ref)
                                ELSE classic_records
          /\ classic_log' = Append(classic_log, item)
    /\ devices' = Tail(devices)
    /\ now' = t2
    /\ UNCHANGED <<mode, json_path, csv_path, pc, ble_records, all_records,
                   pending, stderr, files, ble_log>>

\* The loop is over: scan_classic returns records, the await in main_async
\* completes and the merge loop starts over classic_records.items().
ClassicReturn ==
    /\ pc = "classic_loop"
    /\ devices = <<>>
    /\ pending' = classic_records
    /\ pc' = "merge"
    /\ UNCHANGED <<mode, json_path, csv_path, heap, ble_records,
                   classic_records, all_records, devices, now, stderr, files,
                   ble_log, classic_log>>

----------------------------------------------------------------------------
(* main_async: the merge and the outputs. *)

\* The merge taking the Classic name as well
MergeFieldsWithName(existing, rec) ==
    [existing EXCEPT
       !.device_class = OrInt(existing.device_class, rec.device_class),
       !.name = OrStr(rec.name, existing.name)]

\* The merge adding up the Classic record's sightings
MergeFieldsWithCount(existing, rec) ==
    [existing EXCEPT
       !.device_class = OrInt(existing.device_class, rec.device_class),
       !.sightings = existing.sightings + rec.sightings - 1]

\* The update of an existing record by the merge, before update_last_seen.
MergeFields(existing, rec) ==
    [existing EXCEPT
       !.device_class = OrInt(existing.device_class, rec.device_class)]

\* One iteration of `for addr, rec in classic_records.items()`, the clock
\* read at t by update_last_seen.
MergeStep(t) ==
    /\ pc = "merge"
    /\ pending # <<>>
    /\ LET addr == pending[1][1]
           ref == pending[1][2]
       IN IF addr \in Keys(all_records)
          THEN LET eref == Ref(all_records, addr)
               IN /\ heap' = [heap EXCEPT ![eref] =
                        update_last_seen(MergeFields(heap[eref], heap[ref]), t)]
                  /\ now' = t
                  /\ UNCHANGED all_records
          ELSE /\ t = now
               /\ all_records' = DictSet(all_records, addr, ref)
               /\ UNCHANGED <<heap, now>>
    /\ pending' = Tail(pending)
    /\ UNCHANGED <<mode, json_path, csv_path, pc, ble_records,
                   classic_records, devices, stderr, files, ble_log,
                   classic_log>>

\* The merge loop left before its last iteration
MergeDoneEarly ==
    /\ pc = "merge"
    /\ pc' = "output"
    /\ UNCHANGED <<mode, json_path, csv_path, heap, ble_records,
                   classic_records, all_records, devices, pending, now,
                   stderr, files, ble_log, classic_log>>

\* The merge loop is over.
MergeDone ==
    /\ pc = "merge"
    /\ pending = <<>>
    /\ pc' = "output"
    /\ UNCHANGED <<mode, json_path, csv_path, heap, ble_records,
                   classic_records, all_records, devices, pending, now,
                   stderr, files, ble_log, classic_log>>

\* [r.to_row() for r in records.values()]
Rows(records) == [i \in 1..Len(records) |-> to_row(heap[records[i][2]])]

\* json.dumps(v), a cell of the CSV
JsonText(v) == [json |-> v]

\* write_csv's rewrite of a row: the three composite fields to JSON text
CsvRow(r) ==
    [r EXCEPT
       !.service_uuids = IF r.service_uuids # None
                         THEN Some(JsonText(r.service_uuids[1])) ELSE None,
       !.service_data = IF r.service_data # None
                        THEN Some(JsonText(r.service_data[1])) ELSE None,
       !.manufacturer_data = IF r.manufacturer_data # None
                             THEN Some(JsonText(r.manufacturer_data[1]))
                             ELSE None]

\* write_json(path, records)
write_json(path, records) ==
    [path |-> path, format |-> "json", rows |-> Rows(records)]

\* write_csv(path, records)
write_csv(path, records) ==
    [path |-> path, format |-> "csv",
     rows |-> [i \in 1..Len(records) |-> CsvRow(Rows(records)[i])]]

\* default_json = f"bt_scan_{ts}.json"
DefaultPath == "bt_scan_<ts>.json"

\* The outputs with the default file written only when json is missing
OutputsDefaultOnJson(jp, cp, records) ==
    (IF TruthyStr(jp) THEN <<write_json(jp[1], records)>> ELSE <<>>)
    \o (IF TruthyStr(cp) THEN <<write_csv(cp[1], records)>> ELSE <<>>)
    \o (IF ~TruthyStr(jp)
        THEN <<write_json(DefaultPath, records)>> ELSE <<>>)

\* The outputs of main_async, in the order it writes them:
\*   if args.json_path: write_json(args.json_path, all_records)
\*   if args.csv_path: write_csv(args.csv_path, all_records)
\*   if not args.json_path and not args.csv_path: write_json(default_json, ...)
Outputs(jp, cp, records) ==
    (IF TruthyStr(jp) THEN <<write_json(jp[1], records)>> ELSE <<>>)
    \o (IF TruthyStr(cp) THEN <<write_csv(cp[1], records)>> ELSE <<>>)
    \o (IF ~TruthyStr(jp) /\ ~TruthyStr(cp)
        THEN <<write_json(DefaultPath, records)>> ELSE <<>>)

\* The scan phases are over: main_async writes its outputs and returns.
Output ==
    /\ pc = "output"
    /\ files' = files \o Outputs(json_path, csv_path, all_records)
    /\ pc' = "done"
    /\ UNCHANGED <<mode, json_path, csv_path, heap, ble_records,
                   classic_records, all_records, devices, pending, now,
                   stderr, ble_log, classic_log>>

\* KeyboardInterrupt while a scan window is open: the main task is cancelled
\* at its await (CancelledError is no Exception, scan_ble does not catch it),
\* asyncio.run raises KeyboardInterrupt and __main__ prints a message.
Interrupt ==
    /\ pc \in {"ble_window", "classic_inquiry", "classic_loop"}
    /\ ProcessExit("interrupted")
    /\ UNCHANGED stderr

----------------------------------------------------------------------------
(* The run. *)

Init ==
    /\ mode \in Modes
    /\ json_path \in JsonPaths
    /\ csv_path \in CsvPaths
    /\ pc = "start"
    /\ heap = <<>>
    /\ ble_records = EmptyDict
    /\ classic_records = EmptyDict
    /\ all_records = EmptyDict
    /\ devices = <<>>
    /\ pending = EmptyDict
    /\ now = 0
    /\ stderr = {}
    /\ files = <<>>
    /\ ble_log = <<>>
    /\ classic_log = <<>>

\* What a read of the clock may return: the clock never goes back.
Times == now..MaxClock

Next ==
    \/ BleImportFails
    \/ BleStart
    \/ /\ pc = "ble_window"
       /\ \E ev \in BleEvents, t1 \in Times :
              \E t2 \in t1..MaxClock : OnDetect(ev[1], ev[2], t1, t2)
    \/ BleStop
    \/ BleError
    \/ SkipBle
    \/ SkipClassic
    \/ ClassicImportFails
    \/ ClassicStart
    \/ /\ pc = "classic_inquiry"
       /\ \E found \in SeqsUpTo(ClassicTuples, MaxInputs - Len(ble_log)) :
              InquiryReturns(found)
    \/ /\ pc = "classic_inquiry"
       /\ \E pairs \in SeqsUpTo(ClassicPairs, MaxInputs - Len(ble_log)) :
              InquiryWithoutClass(pairs)
    \/ InquiryFails
    \/ /\ pc = "classic_loop"
       /\ \E t1 \in Times : \E t2 \in t1..MaxClock : ClassicTuple(t1, t2)
    \/ ClassicReturn
    \/ /\ pc = "merge"
       /\ \E t \in Times : MergeStep(t)
    \/ MergeDone
    \/ Output
    \/ Interrupt

Spec == Init /\ [][Next]_vars

----------------------------------------------------------------------------
(* What the properties below speak of. *)

\* The record a dict holds under addr.
RecordOf(d, addr) == heap[Ref(d, addr)]

\* The number of on_detect calls filed under addr.
BleCount(addr) ==
    Cardinality({i \in 1..Len(ble_log) :
        ResolveAddr(ble_log[i][1]) = addr})

\* The number of inquiry tuples iterated for addr.
ClassicCount(addr) ==
    Cardinality({i \in 1..Len(classic_log) : classic_log[i][1] = addr})

\* addr was seen by both adapters, and the merge has handled it.
Merged(addr) ==
    /\ pc \in {"merge", "output", "done"}
    /\ addr \in Keys(ble_records) \cap Keys(classic_records)
    /\ addr \notin Keys(pending)

\* The step is an iteration of the merge loop on an address the store holds.
MergeCollision ==
    /\ pc = "merge"
    /\ pending # <<>>
    /\ pending' = Tail(pending)
    /\ pending[1][1] \in Keys(all_records)

----------------------------------------------------------------------------
(* C1 as stated: in the final store, sightings is the number of BLE events *)
(* plus the number of Classic tuples plus the merge increments of the      *)
(* address.                                                                *)
C1_SightingsCountAllEvents ==
    pc = "done" =>
        \A addr \in Keys(all_records) :
            RecordOf(all_records, addr).sightings =
                BleCount(addr) + ClassicCount(addr)
                + (IF addr \in Keys(ble_records) \cap Keys(classic_records)
                   THEN 1 ELSE 0)

(* C1 amended: in the final store, sightings of an address seen by BLE is  *)
(* the number of its BLE events, plus one if the Classic result holds the  *)
(* address (however many tuples it had); sightings of an address seen by   *)
(* Classic only is the number of its tuples.                               *)
C1_SightingsCount ==
    pc = "done" =>
        \A addr \in Keys(all_records) :
            RecordOf(all_records, addr).sightings =
                IF addr \in Keys(ble_records)
                THEN BleCount(addr)
                     + (IF addr \in Keys(classic_records) THEN 1 ELSE 0)
                ELSE ClassicCount(addr)

C1_Witness ==
    /\ pc = "done"
    /\ \E addr \in Keys(ble_records) \cap Keys(classic_records) :
           /\ ClassicCount(addr) = 2
           /\ BleCount(addr) = 1
           /\ RecordOf(all_records, addr).sightings = 2

----------------------------------------------------------------------------
(* C2: an iteration of the merge on an address the store already holds     *)
(* leaves transport ("BLE"), name, rssi, tx_power, appearance,             *)
(* connectable, address_type, service_uuids, service_data,                 *)
(* manufacturer_data and first_seen of the record as they were, and        *)
(* changes device_class only from absent to the Classic record's value.    *)
C2_MergeKeepsBleFields ==
    [][MergeCollision =>
        LET e == Ref(all_records, pending[1][1])
            old == heap[e]
            new == heap'[e]
            classic == heap[pending[1][2]]
        IN /\ old.transport = "BLE"
           /\ new.transport = "BLE"
           /\ new.address = old.address
           /\ new.name = old.name
           /\ new.rssi = old.rssi
           /\ new.tx_power = old.tx_power
           /\ new.appearance = old.appearance
           /\ new.connectable = old.connectable
           /\ new.address_type = old.address_type
           /\ new.service_uuids = old.service_uuids
           /\ new.service_data = old.service_data
           /\ new.manufacturer_data = old.manufacturer_data
           /\ new.first_seen = old.first_seen
           /\ \/ new.device_class = old.device_class
              \/ /\ old.device_class = None
                 /\ new.device_class = classic.device_class
           /\ \A i \in 1..Len(heap) : i # e => heap'[i] = heap[i]
    ]_vars

C2_Witness ==
    \E addr \in Keys(ble_records) \cap Keys(classic_records) :
        /\ Merged(addr)
        /\ RecordOf(classic_records, addr).name = Some("Phone")
        /\ RecordOf(all_records, addr).name = Some("X")
        /\ RecordOf(all_records, addr).device_class = Some(42)
        /\ RecordOf(all_records, addr).transport = "BLE"

----------------------------------------------------------------------------
(* C3: an iteration of the merge on an address both adapters saw adds      *)
(* exactly one to the record's sightings, which were its number of BLE     *)
(* events, and sets last_seen to the clock's reading, whatever number of   *)
(* tuples the Classic record counted.                                      *)
C3_MergeAddsOneSighting ==
    [][MergeCollision =>
        LET addr == pending[1][1]
            e == Ref(all_records, addr)
        IN /\ addr \in Keys(ble_records)
           /\ e = Ref(ble_records, addr)
           /\ heap[e].sightings = BleCount(addr)
           /\ heap'[e].sightings = BleCount(addr) + 1
           /\ heap'[e].last_seen = now'
           /\ heap'[e].last_seen >= heap[e].last_seen
           /\ all_records' = all_records
    ]_vars

C3_Witness ==
    \E addr \in Keys(ble_records) \cap Keys(classic_records) :
        /\ Merged(addr)
        /\ RecordOf(classic_records, addr).sightings = 2
        /\ BleCount(addr) = 1
        /\ RecordOf(all_records, addr).sightings = 2
        /\ RecordOf(all_records, addr).last_seen
               > RecordOf(classic_records, addr).last_seen

----------------------------------------------------------------------------
(* C4 as stated: an operator interrupt during a scan window never ends the *)
(* run with no output written.                                             *)
C4_InterruptStillWritesOutput ==
    pc = "interrupted" => files # <<>>

----------------------------------------------------------------------------
\* A scan provider has raised at run time.
ScanFailed == stderr \cap {"ble_scan", "traceback"} # {}

(* C5 as stated: after a runtime failure of a scan provider, in the BLE    *)
(* window or in the Classic inquiry, the run still ends with its output    *)
(* written, rendered from the store that holds the records gathered.       *)
C5_ScanFailureStillWritesOutput ==
    (ScanFailed /\ pc \in {"done", "crashed"}) =>
        /\ files # <<>>
        /\ Keys(ble_records) \subseteq Keys(all_records)
        /\ \A i \in 1..Len(files) :
               Len(files[i].rows) = Len(all_records)

----------------------------------------------------------------------------
(* C6: a failed backend import makes that adapter's result empty and does  *)
(* not end the run: the other requested mode can start, only a failed      *)
(* inquiry ends the run without output, and the store of a finished run    *)
(* holds exactly the entries of the adapter that was available, with the   *)
(* output written.                                                         *)
C6_UnavailableBackend ==
    /\ "ble_import" \in stderr =>
           /\ ble_records = EmptyDict
           /\ ble_log = <<>>
           /\ pc # "start"
           /\ (pc = "ble_done" /\ mode = "both") => ENABLED ClassicStart
    /\ "classic_import" \in stderr =>
           /\ classic_records = EmptyDict
           /\ classic_log = <<>>
           /\ pc \in {"merge", "output", "done"}
    /\ pc = "crashed" => "traceback" \in stderr
    /\ pc = "done" =>
           /\ "ble_import" \in stderr => all_records = classic_records
           /\ "classic_import" \in stderr => all_records = ble_records
           /\ stderr \cap {"ble_import", "classic_import"} # {} => files # <<>>

C6_Witness ==
    \/ /\ pc = "done"
       /\ mode = "both"
       /\ "ble_import" \in stderr
       /\ Len(all_records) = 2
       /\ files # <<>>
    \/ /\ pc = "done"
       /\ mode = "both"
       /\ "classic_import" \in stderr
       /\ Len(all_records) = 2
       /\ Len(files) = 2

----------------------------------------------------------------------------
\* A file of that format was written at path.
Written(format, path) ==
    \E i \in 1..Len(files) : files[i].format = format /\ files[i].path = path

\* The file of that format at the path the option gave was written.
WrittenAt(format, option) ==
    option # None /\ Written(format, option[1])

(* C7 as stated: a finished run has written the JSON file iff json was     *)
(* supplied, the CSV file iff csv was supplied and the default JSON file   *)
(* iff neither was, so at least one file.                                  *)
C7_OutputsIffSupplied ==
    pc = "done" =>
        /\ files # <<>>
        /\ json_path # None <=> WrittenAt("json", json_path)
        /\ csv_path # None <=> WrittenAt("csv", csv_path)
        /\ (json_path = None /\ csv_path = None)
               <=> Written("json", DefaultPath)

(* C7 amended: a finished run has written the JSON file iff a non-empty    *)
(* json path was supplied, the CSV file iff a non-empty csv path was       *)
(* supplied, and the default JSON file iff neither a non-empty json path   *)
(* nor a non-empty csv path was; at least one file and no other file, and  *)
(* every file holds one row per record of the store.                       *)
C7_OutputsIffNonEmptyPath ==
    pc = "done" =>
        /\ files # <<>>
        /\ TruthyStr(json_path) <=> WrittenAt("json", json_path)
        /\ TruthyStr(csv_path) <=> WrittenAt("csv", csv_path)
        /\ (~TruthyStr(json_path) /\ ~TruthyStr(csv_path))
               <=> Written("json", DefaultPath)
        /\ \A i \in 1..Len(files) :
               /\ \/ TruthyStr(json_path) /\ files[i].path = json_path[1]
                  \/ TruthyStr(csv_path) /\ files[i].path = csv_path[1]
                  \/ files[i].path = DefaultPath
               /\ Len(files[i].rows) = Len(all_records)

C7_Witness ==
    /\ pc = "done"
    /\ all_records = EmptyDict
    /\ json_path = Some("")
    /\ csv_path = Some("out.csv")
    /\ Len(files) = 1
    /\ files[1].rows = <<>>

----------------------------------------------------------------------------
\* The address an advertisement event reports, if any.
Reported(entry) == OrStr(entry[1].address, entry[1].mac_address)
BleReported ==
    {Reported(ble_log[i])[1] :
        i \in {j \in 1..Len(ble_log) : TruthyStr(Reported(ble_log[j]))}}
ClassicReported == {classic_log[i][1] : i \in 1..Len(classic_log)}

OneRecordPerKey ==
    /\ \A i, j \in 1..Len(all_records) :
           i # j => /\ all_records[i][1] # all_records[j][1]
                    /\ all_records[i][2] # all_records[j][2]
    /\ \A i \in 1..Len(all_records) :
           heap[all_records[i][2]].address = all_records[i][1]

(* C8 as stated: the key set of the final store is the set of addresses    *)
(* the BLE events and the Classic tuples reported, one record per key,     *)
(* each record's address its key.                                          *)
C8_KeysAreReportedAddresses ==
    pc = "done" =>
        /\ Keys(all_records) = BleReported \cup ClassicReported
        /\ OneRecordPerKey

(* C8 amended: the key set of the final store is the set of addresses the  *)
(* BLE events and the Classic tuples reported, as reported, together with  *)
(* "UNKNOWN" when a BLE event reported no address; one record per key,     *)
(* each record's address its key.                                          *)
C8_KeysAreResolvedAddresses ==
    pc = "done" =>
        /\ Keys(all_records) =
               BleReported \cup ClassicReported
               \cup (IF \E i \in 1..Len(ble_log) :
                           ~TruthyStr(Reported(ble_log[i]))
                     THEN {"UNKNOWN"} ELSE {})
        /\ OneRecordPerKey

C8_Witness ==
    /\ pc = "done"
    /\ Keys(all_records) = {"AA:BB", "UNKNOWN", "aa:bb"}
    /\ RecordOf(all_records, "AA:BB").transport = "BLE"
    /\ RecordOf(all_records, "aa:bb").transport = "Classic"

----------------------------------------------------------------------------
(* C9: every record constructed has, once its event or merge step is       *)
(* processed, sightings >= 1 and first_seen <= last_seen; the dicts hold   *)
(* only such records.                                                      *)
C9_RecordInvariant ==
    /\ \A i \in 1..Len(heap) :
           /\ heap[i].sightings >= 1
           /\ heap[i].first_seen <= heap[i].last_seen
           /\ heap[i].last_seen <= now
    /\ \A d \in {ble_records, classic_records, all_records} :
           \A i \in 1..Len(d) : d[i][2] \in 1..Len(heap)

C9_Witness ==
    \E addr \in Keys(all_records) :
        /\ RecordOf(all_records, addr).sightings >= 2
        /\ RecordOf(all_records, addr).first_seen
               < RecordOf(all_records, addr).last_seen

----------------------------------------------------------------------------
\* The entries of d are in the order their records were constructed.
CreationOrder(d) ==
    \A i, j \in 1..Len(d) : i < j => d[i][2] < d[j][2]

\* The store is in construction order and the files follow the store.
C10_StoreOrder ==
    /\ CreationOrder(all_records)
    /\ \A f \in 1..Len(files) :
           [i \in 1..Len(files[f].rows) |-> files[f].rows[i].address]
               = KeySeq(all_records)

\* A step of the running process leaves every entry of the store in place.
C10_EntriesStay ==
    pc' \notin {"interrupted", "crashed"} =>
        \A i \in 1..Len(all_records) :
            /\ i <= Len(all_records')
            /\ all_records'[i] = all_records[i]

(* C10: the store lists its records in the order they were constructed,    *)
(* every output file lists its rows in the order of the store, and no      *)
(* step of a running scan moves an entry of the store: an event, a tuple   *)
(* or a merge leaves every entry at its position.                          *)
C10_RowOrder == []C10_StoreOrder /\ [][C10_EntriesStay]_vars

C10_Witness ==
    /\ pc = "done"
    /\ KeySeq(all_records) = <<"AA:BB", "UNKNOWN">>
    /\ Merged("AA:BB")
    /\ RecordOf(all_records, "AA:BB").sightings = 2
    /\ RecordOf(all_records, "AA:BB").last_seen
           > RecordOf(all_records, "UNKNOWN").first_seen
    /\ Len(files) = 2

----------------------------------------------------------------------------
\* The worker thread of asyncio.to_thread is inside scan_classic.
WorkerRunning == pc \in {"classic_inquiry", "classic_loop"}

\* The records a dict refers to.
Refs(d) == {d[i][2] : i \in 1..Len(d)}

\* Where the run stands, phase by phase.
C11_Phases ==
    /\ pc \in {"start", "ble_window"} =>
           /\ classic_records = EmptyDict
           /\ classic_log = <<>>
           /\ devices = <<>>
    /\ WorkerRunning =>
           /\ mode \in {"classic", "both"}
           /\ all_records = ble_records
           /\ Refs(classic_records) \cap Refs(all_records) = {}
           /\ pending = EmptyDict
    /\ pending # EmptyDict => pc = "merge" /\ devices = <<>>

\* A step taken while the worker runs leaves the store, the BLE dict and
\* every record they refer to as they were, and is no detection event.
C11_WorkerIsolated ==
    (WorkerRunning /\ pc' \notin {"interrupted", "crashed"}) =>
        /\ all_records' = all_records
        /\ ble_records' = ble_records
        /\ ble_log' = ble_log
        /\ \A r \in Refs(all_records) \cup Refs(ble_records) :
               heap'[r] = heap[r]

\* A step that changes the store or a record of the store is a step of the
\* BLE phase or of the merge loop.
C11_StoreWriters ==
    (/\ pc' \notin {"interrupted", "crashed"}
     /\ \/ all_records' # all_records
        \/ \E r \in Refs(all_records) : heap'[r] # heap[r])
        => pc \in {"ble_window", "merge"}

(* C11: the Classic worker starts only after the BLE window has closed and *)
(* its result is in the store; while it runs it changes only its own dict  *)
(* and the records of that dict, which the store does not share; the store *)
(* is changed by the merge only after the worker has returned.             *)
C11_WorkerPrivate ==
    []C11_Phases /\ [][C11_WorkerIsolated /\ C11_StoreWriters]_vars

C11_Witness ==
    /\ pc = "classic_loop"
    /\ "AA:BB" \in Keys(all_records) \cap Keys(classic_records)
    /\ Ref(all_records, "AA:BB") # Ref(classic_records, "AA:BB")
    /\ RecordOf(classic_records, "AA:BB").sightings = 2
    /\ RecordOf(all_records, "AA:BB").sightings = 1

----------------------------------------------------------------------------
\* The on_detect calls filed under addr, by their position in the history.
EventsOf(addr) ==
    {i \in 1..Len(ble_log) : ResolveAddr(ble_log[i][1]) = addr}

\* Every service UUID an advertisement filed under addr carried.
UuidsReported(addr) ==
    UNION {Range(ble_log[i][2].service_uuids) : i \in EventsOf(addr)}

\* cell is the absence marker when S is empty, else the list of the elements
\* of S, each once, in ascending order.
SortedListOrAbsent(cell, S) ==
    LET c == cell
    IN IF S = {} THEN c = None
       ELSE /\ c # None
            /\ Range(c[1]) = S
            /\ \A i \in 1..(Len(c[1]) - 1) :
                   UuidRank(c[1][i]) < UuidRank(c[1][i + 1])

(* C12: the service_uuids of every row written (the JSON value, the        *)
(* decoded CSV cell) is the ascending duplicate-free list of all the UUIDs *)
(* the events of the row's address carried, and the absence marker, not an *)
(* empty list, when they carried none.                                     *)
C12_SerializedUuids ==
    \A f \in 1..Len(files) :
        \A i \in 1..Len(files[f].rows) :
            LET row == files[f].rows[i]
                cell == IF files[f].format = "csv" /\ row.service_uuids # None
                        THEN Some(row.service_uuids[1].json)
                        ELSE row.service_uuids
            IN SortedListOrAbsent(cell, UuidsReported(row.address))

C12_Witness ==
    /\ pc = "done"
    /\ Len(files) = 2
    /\ files[1].format = "json" /\ files[2].format = "csv"
    /\ KeySeq(all_records) = <<"AA:BB", "UNKNOWN">>
    /\ Len(ble_log) = 3
    /\ ble_log[1][2].service_uuids = <<"u3", "u1", "u3">>
    /\ ble_log[2][2].service_uuids = <<"u2", "u1">>
    /\ files[1].rows[1].service_uuids = Some(<<"u1", "u2", "u3">>)
    /\ files[2].rows[1].service_uuids = Some(JsonText(<<"u1", "u2", "u3">>))
    /\ files[1].rows[2].service_uuids = None
    /\ files[2].rows[2].service_uuids = None

----------------------------------------------------------------------------
\* The step is an iteration of scan_classic's loop over the inquiry tuples.
ClassicTupleStep ==
    /\ pc = "classic_loop"
    /\ pc' = "classic_loop"
    /\ devices # <<>>
    /\ devices' = Tail(devices)

\* The name and the device class of the tuple's address before the
\* iteration (None when it has no record yet) and after it.
NameBefore ==
    IF TupleAddr(Head(devices)) \in Keys(classic_records)
    THEN RecordOf(classic_records, TupleAddr(Head(devices))).name ELSE None
ClassBefore ==
    IF TupleAddr(Head(devices)) \in Keys(classic_records)
    THEN RecordOf(classic_records, TupleAddr(Head(devices))).device_class
    ELSE None
TupleRecordAfter ==
    heap'[Ref(classic_records', TupleAddr(Head(devices)))]

(* C13 as stated: an inquiry tuple for an address that already has a       *)
(* record in the inquiry's result sets the name from the tuple only if the *)
(* record has none; a record with a name keeps it whatever name the tuple  *)
(* carries.                                                                *)
C13_ClassicKeepsName ==
    [][(ClassicTupleStep
        /\ TupleAddr(Head(devices)) \in Keys(classic_records)) =>
           IF NameBefore # None
           THEN TupleRecordAfter.name = NameBefore
           ELSE \/ TupleRecordAfter.name = TupleName(Head(devices))
                \/ /\ ~TruthyStr(TupleName(Head(devices)))
                   /\ TupleRecordAfter.name = None]_vars

(* C13 amended: an inquiry tuple sets the name of its record to the name   *)
(* it carries whenever it carries a non-empty one, whether or not the      *)
(* record already has a name; the record keeps its name only when the      *)
(* tuple carries no name or an empty one.                                  *)
C13_ClassicTakesTupleName ==
    [][ClassicTupleStep =>
           TupleRecordAfter.name =
               IF TruthyStr(TupleName(Head(devices)))
               THEN TupleName(Head(devices)) ELSE NameBefore]_vars

C13_Witness ==
    /\ pc = "classic_loop"
    /\ classic_log = << <<"AA:BB", Some("Phone"), Some(42)>>,
                        <<"AA:BB", Some("Other"), Some(0)>> >>
    /\ RecordOf(classic_records, "AA:BB").name = Some("Other")
    /\ RecordOf(classic_records, "AA:BB").sightings = 2

(* C14 as stated: an inquiry tuple sets the device_class of its record to  *)
(* the tuple's value when it provides one, and leaves the device_class     *)
(* stored for the address unchanged when it provides none.                 *)
C14_ClassicKeepsClass ==
    [][ClassicTupleStep =>
           TupleRecordAfter.device_class =
               IF TupleClass(Head(devices)) # None
               THEN TupleClass(Head(devices)) ELSE ClassBefore]_vars

----------------------------------------------------------------------------
\* The step is a call of on_detect.
BleEventStep ==
    /\ pc = "ble_window"
    /\ pc' = "ble_window"
    /\ Len(ble_log') = Len(ble_log) + 1

\* The arguments of the call, the address it files them under, and the
\* record of that address before the call (as constructed, when the call
\* creates it) and after it.
EventDevice == ble_log'[Len(ble_log')][1]
EventAdv == ble_log'[Len(ble_log')][2]
EventAddr == ResolveAddr(EventDevice)
BleRecordBefore ==
    IF EventAddr \in Keys(ble_records)
    THEN RecordOf(ble_records, EventAddr)
    ELSE NewRecord(EventAddr, "BLE", now)
BleRecordAfter == heap'[Ref(ble_records', EventAddr)]

(* C15 as stated: after a BLE detection event the rssi of the record is    *)
(* the advertisement-level value if the event has one, else the            *)
(* device-level value if the event has one, else the value the record held *)
(* before the event.                                                       *)
C15_RssiKept ==
    [][BleEventStep =>
           BleRecordAfter.rssi =
               IF EventAdv.rssi # None THEN EventAdv.rssi
               ELSE IF EventDevice.rssi # None THEN EventDevice.rssi
               ELSE BleRecordBefore.rssi]_vars

(* C16: after a BLE detection event the name of the record is the          *)
(* device-level name if the event has a non-empty one, else the            *)
(* advertisement local name if the event has a non-empty one, else the     *)
(* name the record held before; a record that had a name still has one.    *)
C16_NameCoalesced ==
    [][BleEventStep =>
           /\ BleRecordAfter.name =
                  IF TruthyStr(EventDevice.name) THEN EventDevice.name
                  ELSE IF TruthyStr(EventAdv.local_name)
                       THEN EventAdv.local_name
                  ELSE BleRecordBefore.name
           /\ BleRecordBefore.name # None => BleRecordAfter.name # None]_vars

C16_Witness ==
    /\ pc = "ble_window"
    /\ ble_log = << <<DevAA, AdvFull>>, <<DevAAanon, AdvEmpty>> >>
    /\ RecordOf(ble_records, "AA:BB").name = Some("X")
    /\ RecordOf(ble_records, "AA:BB").rssi = Some(-45)
    /\ RecordOf(ble_records, "AA:BB").sightings = 2

(* C17: whenever a BLE detection event supplies a value for tx_power,      *)
(* appearance, connectable or address_type, the field of the record equals *)
(* that value after the event, whatever it held before.                    *)
C17_LastWriteWins ==
    [][BleEventStep =>
           /\ EventAdv.tx_power # None =>
                  BleRecordAfter.tx_power = EventAdv.tx_power
           /\ EventAdv.appearance # None =>
                  BleRecordAfter.appearance = EventAdv.appearance
           /\ EventAdv.connectable # None =>
                  BleRecordAfter.connectable = EventAdv.connectable
           /\ EventAdv.address_type # None =>
                  BleRecordAfter.address_type = EventAdv.address_type]_vars

C17_Witness ==
    /\ pc = "ble_window"
    /\ ble_log = << <<DevAA, AdvFull>>, <<DevMac, AdvOther>> >>
    /\ RecordOf(ble_records, "AA:BB").tx_power = Some(8)
    /\ RecordOf(ble_records, "AA:BB").appearance = Some(0)
    /\ RecordOf(ble_records, "AA:BB").connectable = Some(FALSE)
    /\ RecordOf(ble_records, "AA:BB").address_type = Some("random")

----------------------------------------------------------------------------
\* The keys on_detect files the event's service data and manufacturer data
\* under.
EventServiceKeys ==
    {EventAdv.service_data[i][1] : i \in 1..Len(EventAdv.service_data)}
EventManufacturerKeys ==
    {ManufacturerKey(EventAdv.manufacturer_data[i][1]) :
        i \in 1..Len(EventAdv.manufacturer_data)}

\* No step of a running scan takes an element from the three collections
\* of any record.
C18_NoElementLost ==
    pc' \notin {"interrupted", "crashed"} =>
        \A r \in 1..Len(heap) :
            /\ r <= Len(heap')
            /\ heap[r].service_uuids \subseteq heap'[r].service_uuids
            /\ DOMAIN heap[r].service_data
                   \subseteq DOMAIN heap'[r].service_data
            /\ DOMAIN heap[r].manufacturer_data
                   \subseteq DOMAIN heap'[r].manufacturer_data

\* An on_detect call adds the event's entries and nothing else.
C18_EventUnion ==
    BleEventStep =>
        /\ BleRecordAfter.service_uuids =
               BleRecordBefore.service_uuids
               \cup Range(EventAdv.service_uuids)
        /\ DOMAIN BleRecordAfter.service_data =
               DOMAIN BleRecordBefore.service_data \cup EventServiceKeys
        /\ DOMAIN BleRecordAfter.manufacturer_data =
               DOMAIN BleRecordBefore.manufacturer_data
               \cup EventManufacturerKeys
        /\ (/\ EventAdv.service_uuids = <<>>
            /\ EventAdv.service_data = <<>>
            /\ EventAdv.manufacturer_data = <<>>) =>
               /\ BleRecordAfter.service_uuids = BleRecordBefore.service_uuids
               /\ BleRecordAfter.service_data = BleRecordBefore.service_data
               /\ BleRecordAfter.manufacturer_data =
                      BleRecordBefore.manufacturer_data

\* An inquiry tuple, a merge or any other step leaves the three collections
\* of every record as they were.
C18_OtherStepsLeave ==
    (~BleEventStep /\ pc' \notin {"interrupted", "crashed"}) =>
        \A r \in 1..Len(heap) :
            /\ heap'[r].service_uuids = heap[r].service_uuids
            /\ heap'[r].service_data = heap[r].service_data
            /\ heap'[r].manufacturer_data = heap[r].manufacturer_data

(* C18: over BLE events, Classic tuples and merges, the service_uuids set, *)
(* the keys of service_data and the keys of manufacturer_data of a record  *)
(* never lose an element; after a BLE event each is the union of what it   *)
(* was with the event's entries (manufacturer keys as on_detect parses     *)
(* them), an event carrying none leaves all three unchanged, and no other  *)
(* step changes them.                                                      *)
C18_CollectionsGrow ==
    [][C18_NoElementLost /\ C18_EventUnion /\ C18_OtherStepsLeave]_vars

C18_Witness ==
    /\ pc = "done"
    /\ Merged("AA:BB")
    /\ ble_log = << <<DevAA, AdvFull>>, <<DevMac, AdvOther>> >>
    /\ RecordOf(all_records, "AA:BB").service_uuids = {"u1", "u2", "u3"}
    /\ DOMAIN RecordOf(all_records, "AA:BB").service_data = {"u1", "u2"}
    /\ DOMAIN RecordOf(all_records, "AA:BB").manufacturer_data =
           {IntKey(76), StrKey(<<"4", "c">>)}

----------------------------------------------------------------------------
\* The addresses a file lists, in row order.
FileAddresses(f) == [i \in 1..Len(f.rows) |-> f.rows[i].address]

\* The rows a file of this format holds when rendered from the store as it
\* is now.
Rendered(format) ==
    IF format = "json" THEN Rows(all_records)
    ELSE [i \in 1..Len(all_records) |-> CsvRow(Rows(all_records)[i])]

\* Once a file is written the run is past every scan phase and the merge,
\* and the files are renderings of the store as it is.
C19_WrittenAfterScans ==
    files # <<>> =>
        /\ pc = "done"
        /\ devices = <<>>
        /\ pending = EmptyDict
        /\ Keys(ble_records) \cup Keys(classic_records) = Keys(all_records)
        /\ \A addr \in Keys(all_records) :
               RecordOf(all_records, addr).sightings =
                   IF addr \in Keys(ble_records)
                   THEN BleCount(addr)
                        + (IF addr \in Keys(classic_records) THEN 1 ELSE 0)
                   ELSE ClassicCount(addr)
        /\ \A f \in 1..Len(files) :
               /\ files[f].rows = Rendered(files[f].format)
               /\ FileAddresses(files[f]) = FileAddresses(files[1])

\* The step that writes reads the store only, and no step after it creates
\* or changes a record.
C19_StoreFrozen ==
    (files' # files \/ files # <<>>) =>
        /\ heap' = heap
        /\ all_records' = all_records
        /\ pc \in {"output", "done"}

(* C19: the outputs are written only after every requested scan phase is   *)
(* over and every entry of the Classic result has been merged exactly      *)
(* once; the writing step and every step after it leave the records and    *)
(* the store unchanged, so the JSON and the CSV of a run are renderings of *)
(* the same store and list the same addresses.                             *)
C19_SerializeAfterMerge ==
    []C19_WrittenAfterScans /\ [][C19_StoreFrozen]_vars

C19_Witness ==
    /\ pc = "done"
    /\ mode = "both"
    /\ Len(files) = 2
    /\ files[1].format = "json" /\ files[2].format = "csv"
    /\ Merged("AA:BB")
    /\ FileAddresses(files[1]) = <<"AA:BB", "aa:bb">>
    /\ FileAddresses(files[2]) = <<"AA:BB", "aa:bb">>
    /\ RecordOf(all_records, "AA:BB").sightings = 2

----------------------------------------------------------------------------
\* The advertisement of the latest on_detect call filed under addr.
LastAdv(addr) ==
    ble_log[CHOOSE i \in 1..Len(ble_log) :
                /\ ResolveAddr(ble_log[i][1]) = addr
                /\ \A j \in (i + 1)..Len(ble_log) :
                       ResolveAddr(ble_log[j][1]) # addr][2]

(* C20: tx_power, appearance, connectable and address_type of a BLE record *)
(* are those of the most recent event of its address, absent when that     *)
(* event supplied none: no value of an earlier event is retained.          *)
C20_LatestEventOnly ==
    \A k \in 1..Len(ble_records) :
        LET rec == heap[ble_records[k][2]]
            adv == LastAdv(ble_records[k][1])
        IN /\ rec.tx_power = adv.tx_power
           /\ rec.appearance = adv.appearance
           /\ rec.connectable = adv.connectable
           /\ rec.address_type = adv.address_type

C20_Witness ==
    /\ pc = "ble_window"
    /\ ble_log = << <<DevAA, AdvFull>>, <<DevAAanon, AdvEmpty>> >>
    /\ RecordOf(ble_records, "AA:BB").tx_power = None
    /\ RecordOf(ble_records, "AA:BB").appearance = None
    /\ RecordOf(ble_records, "AA:BB").connectable = None
    /\ RecordOf(ble_records, "AA:BB").address_type = None
    /\ RecordOf(ble_records, "AA:BB").service_uuids = {"u1", "u2"}

============================================================================
